---- MODULE Spec2Model ----
(***************************************************************************)
(* videojitter: the two batch programs                                     *)
(*   generate-report.py          (the Recording Aligner)                   *)
(*   generate-fake-recording.py  (the Signal Synthesizer's rate handling   *)
(*                                and its output file)                     *)
(* Each program is a straight-line script; an action is one contiguous     *)
(* block of its statements and pc names the block that runs next.          *)
(*                                                                         *)
(* Numbers.  The programs compute in float64.  The model computes the same *)
(* formulas in exact rational arithmetic: a number is a pair <<n, d>> in   *)
(* lowest terms with d > 0, and NaN is <<0, 0>>.  Rounding error is        *)
(* therefore not modelled; NaN and its propagation are.                    *)
(***************************************************************************)
EXTENDS Integers, Sequences, FiniteSets, TLC

(* ------------------------------ bounds --------------------------------- *)
\* longest frame sequence of a spec file (exhaustive inputs)
MaxFrames == 4
\* most rows of a recording-analysis CSV (exhaustive inputs)
MaxRows == 3
\* longest frame sequence of a spec file (schedule-derived inputs)
MaxScheduleFrames == 9
\* largest sample rate, in Hz
MaxRate == 8

(* --------------------------- float arithmetic -------------------------- *)
Abs(n) == IF n < 0 THEN -n ELSE n

RECURSIVE GCD(_, _)
GCD(a, b) == IF b = 0 THEN a ELSE GCD(b, a % b)

NaN == <<0, 0>>

IsNaN(r) == r[2] = 0

\* n / d; 0/0 is NaN.  (The programs never divide a non-zero number by
\* zero: every zero divisor is the length of a range all of whose members
\* are equal, and the dividend is then a difference of two of them.)
Rat(n, d) ==
    IF d = 0 THEN NaN
    ELSE LET g == GCD(Abs(n), Abs(d))
             s == IF d < 0 THEN -1 ELSE 1
         IN  <<(s * n) \div g, (s * d) \div g>>

Whole(n) == <<n, 1>>

RAdd(a, b) ==
    IF IsNaN(a) \/ IsNaN(b) THEN NaN
    ELSE Rat(a[1] * b[2] + b[1] * a[2], a[2] * b[2])

RSub(a, b) ==
    IF IsNaN(a) \/ IsNaN(b) THEN NaN
    ELSE Rat(a[1] * b[2] - b[1] * a[2], a[2] * b[2])

RMul(a, b) ==
    IF IsNaN(a) \/ IsNaN(b) THEN NaN
    ELSE Rat(a[1] * b[1], a[2] * b[2])

RDiv(a, b) ==
    IF IsNaN(a) \/ IsNaN(b) THEN NaN
    ELSE Rat(a[1] * b[2], a[2] * b[1])

\* comparisons; any comparison with NaN is false
RLe(a, b) == ~IsNaN(a) /\ ~IsNaN(b) /\ a[1] * b[2] <= b[1] * a[2]

RLt(a, b) == ~IsNaN(a) /\ ~IsNaN(b) /\ a[1] * b[2] < b[1] * a[2]

RAbs(a) == <<Abs(a[1]), a[2]>>

RECURSIVE RSum(_)
RSum(s) == IF s = <<>> THEN Whole(0) ELSE RAdd(Head(s), RSum(Tail(s)))

\* Series.mean(): NaN entries are skipped, the mean of nothing is NaN
RMean(s) ==
    LET v == SelectSeq(s, LAMBDA r : ~IsNaN(r))
    IN  RDiv(RSum(v), Whole(Len(v)))

\* Series.min() / Series.max(): NaN entries are skipped, NaN when empty
RMin(s) ==
    LET v == {s[i] : i \in {j \in 1..Len(s) : ~IsNaN(s[j])}}
    IN  IF v = {} THEN NaN ELSE CHOOSE m \in v : \A r \in v : RLe(m, r)

RMax(s) ==
    LET v == {s[i] : i \in {j \in 1..Len(s) : ~IsNaN(s[j])}}
    IN  IF v = {} THEN NaN ELSE CHOOSE m \in v : \A r \in v : RLe(r, m)

(* ------------------------- generate-report.py -------------------------- *)
\* interval(series): pd.Interval(series.min(), series.max()).  The
\* constructor raises ValueError unless left <= right, which NaN fails.
interval(series) == [left |-> RMin(series), right |-> RMax(series)]

IntervalRaises(series) == ~RLe(RMin(series), RMax(series))

IntervalLength(iv) == RSub(iv.right, iv.left)

\* the affine map without the shift to the target's left end
RescaleNoShift(x, original_range, target_range) ==
    RMul(RDiv(RSub(x, original_range.left), IntervalLength(original_range)),
         IntervalLength(target_range))

\* rescale(series, target_range), one element at a time; original_range is
\* interval(series)
rescale(x, original_range, target_range) ==
    RAdd(RMul(RDiv(RSub(x, original_range.left), IntervalLength(original_range)),
              IntervalLength(target_range)),
         target_range.left)

\* frame_duration = spec["fps"]["den"] / spec["fps"]["num"]
frame_duration(s) == Rat(s.fps.den, s.fps.num)

\* the index of the frame table: np.arange(0, len(frames)) * frame_duration
\* (position p of a TLA+ sequence is Python's index p - 1)
timestamp_seconds(s, p) == RMul(Whole(p - 1), frame_duration(s))

\* frame != frame.shift(): the first entry is compared with NaN, so it differs
FrameNotEqualShifted(frames) ==
    [p \in 1..Len(frames) |-> IF p = 1 THEN TRUE ELSE frames[p] # frames[p - 1]]

\* the mask without its first entry cleared
DiffKeepsFirst(frames) == FrameNotEqualShifted(frames)

\* reference_transitions_diff, after reference_transitions_diff[0] = False
reference_transitions_diff(frames) ==
    [p \in 1..Len(frames) |-> IF p = 1 THEN FALSE ELSE FrameNotEqualShifted(frames)[p]]

\* Series.cumsum() of a boolean mask
cumsum(mask) ==
    [p \in 1..Len(mask) |-> Cardinality({q \in 1..p : mask[q]})]

\* groupby(keys).cumcount(): how many earlier entries share the entry's key
cumcount(keys) ==
    [p \in 1..Len(keys) |-> Cardinality({q \in 1..(p - 1) : keys[q] = keys[p]})]

\* groupby(diff.cumsum()).cumcount().shift() + 1; entry 1 is NaN (written 0,
\* it is never selected once the mask's first entry is cleared)
previous_frame_count(frames) ==
    LET cc == cumcount(cumsum(reference_transitions_diff(frames)))
    IN  [p \in 1..Len(frames) |-> IF p = 1 THEN 0 ELSE cc[p - 1] + 1]

\* reference_transitions[reference_transitions_diff]: the rows of the mask,
\* in index order
RECURSIVE SelectRows(_, _, _)
SelectRows(table, mask, p) ==
    IF p > Len(table) THEN <<>>
    ELSE (IF mask[p] THEN <<table[p]>> ELSE <<>>) \o SelectRows(table, mask, p + 1)

BuildReferenceTransitions(s) ==
    LET count == previous_frame_count(s.frames)
        table == [p \in 1..Len(s.frames) |->
                    [timestamp_seconds    |-> timestamp_seconds(s, p),
                     frame                |-> s.frames[p],
                     previous_frame_count |-> count[p]]]
    IN  SelectRows(table, reference_transitions_diff(s.frames), 1)

Column(table, name) == [p \in 1..Len(table) |-> table[p][name]]

(* ------------------------------- state --------------------------------- *)
VARIABLES
    pc,                     \* the block of the script that runs next
    args,                   \* parse_arguments()'s result
    spec,                   \* the spec file's JSON
    reference_transitions,  \* the reference transition table
    csv,                    \* the rows read from stdin, in file order
    transitions,            \* the recorded, then aligned, transition table
    linear_regression,      \* the fitted polynomial: coef, domain
    clock_skew,             \* the clock skew reported on stderr
    stderr,                 \* the warnings printed
    chart,                  \* the anomaly column of the saved chart
    exception,              \* the exception that ended the run, if any
    output_file,            \* the file a program writes: its state on disk
    sample_rate,            \* generate_fake_recording's sample_rate
    downsample_ratio        \* generate_fake_recording's downsample_ratio

vars == <<pc, args, spec, reference_transitions, csv, transitions,
          linear_regression, clock_skew, stderr, chart, exception, output_file,
          sample_rate, downsample_ratio>>

fake_vars == <<sample_rate, downsample_ratio>>

FrameLabels == {"BLACK", "WHITE"}

Unset == [unset |-> TRUE]

\* before the script runs; files: what may be at the output path already
Start(files) ==
    /\ pc = "parse_arguments"
    /\ args = Unset
    /\ spec = Unset
    /\ reference_transitions = <<>>
    /\ csv = <<>>
    /\ transitions = <<>>
    /\ linear_regression = Unset
    /\ clock_skew = NaN
    /\ stderr = {}
    /\ chart = <<>>
    /\ exception = [type |-> "none", line |-> 0]
    /\ output_file \in files
    /\ sample_rate = NaN
    /\ downsample_ratio = 0

Init == Start({"absent"})

\* an uncaught exception of the statement at a line ends the run
Raise(type, line) ==
    /\ pc' = "raised"
    /\ exception' = [type |-> type, line |-> line]

\* generate-report.py line 51; --output-file is a plain string argument, so
\* nothing is opened here
ParseArguments(compensate) ==
    /\ pc = "parse_arguments"
    /\ args' = [compensate_clock_skew |-> compensate]
    /\ pc' = "load_spec"
    /\ UNCHANGED <<spec, reference_transitions, csv, transitions,
                   linear_regression, clock_skew, stderr, chart, exception,
                   output_file, fake_vars>>

\* lines 53-79
LoadSpec(s) ==
    /\ pc = "load_spec"
    /\ spec' = s
    /\ reference_transitions' = BuildReferenceTransitions(s)
    /\ IF IntervalRaises(Column(reference_transitions', "timestamp_seconds"))
       THEN Raise("ValueError", 75)
       ELSE pc' = "read_csv" /\ UNCHANGED exception
    /\ UNCHANGED <<args, csv, transitions, linear_regression, clock_skew,
                   stderr, chart, output_file, fake_vars>>

\* lines 81-97: read_csv keeps the file's row order
ReadTransitions(rows) ==
    /\ pc = "read_csv"
    /\ csv' = rows
    /\ transitions' = rows
    /\ IF IntervalRaises(Column(rows, "recording_timestamp_seconds"))
       THEN Raise("ValueError", 86) /\ UNCHANGED stderr
       ELSE /\ stderr' = IF Len(rows) = Len(reference_transitions)
                         THEN stderr
                         ELSE stderr \cup {"inconsistent transition count"}
            /\ pc' = "rescale"
            /\ UNCHANGED exception
    /\ UNCHANGED <<args, spec, reference_transitions, linear_regression,
                   clock_skew, chart, output_file, fake_vars>>

\* lines 99-106: the scaled timestamps become the table's index
ScaledIndex(table, refs) ==
    LET recorded == Column(table, "recording_timestamp_seconds")
        from     == interval(recorded)
        to       == interval(Column(refs, "timestamp_seconds"))
    IN  [p \in 1..Len(table) |->
            [scaled_recording_timestamp_seconds |->
                 rescale(recorded[p], from, to),
             recording_timestamp_seconds |-> recorded[p],
             frame |-> table[p].frame]]

RescaleTransitions ==
    /\ pc = "rescale"
    /\ transitions' = ScaledIndex(transitions, reference_transitions)
    /\ pc' = "merge"
    /\ UNCHANGED <<args, spec, reference_transitions, csv, linear_regression,
                   clock_skew, stderr, chart, exception, output_file, fake_vars>>

\* pd.merge_asof checks its left keys: no NaN, and sorted (non-decreasing);
\* otherwise it raises ValueError
MergeAsofRaises(keys) ==
    \/ \E p \in 1..Len(keys) : IsNaN(keys[p])
    \/ \E p \in 1..(Len(keys) - 1) : RLt(keys[p + 1], keys[p])

\* asof_join_backward: the last right key <= x (0: none)
Backward(x, right) ==
    LET S == {q \in 1..Len(right) : RLe(right[q], x)}
    IN  IF S = {} THEN 0 ELSE CHOOSE q \in S : \A r \in S : r <= q

\* asof_join_forward: the first right key >= x (0: none)
Forward(x, right) ==
    LET S == {q \in 1..Len(right) : RLe(x, right[q])}
    IN  IF S = {} THEN 0 ELSE CHOOSE q \in S : \A r \in S : q <= r

\* the closer of the two, the forward one on a tie
NearestForwardOnTie(x, right) ==
    LET b == Backward(x, right)
        f == Forward(x, right)
    IN  IF b # 0 /\ f # 0
        THEN IF RLt(RSub(x, right[b]), RSub(right[f], x)) THEN b ELSE f
        ELSE IF b # 0 THEN b ELSE f

\* asof_join_nearest: the closer of the two, the backward one on a tie
Nearest(x, right) ==
    LET b == Backward(x, right)
        f == Forward(x, right)
    IN  IF b # 0 /\ f # 0
        THEN IF RLe(RSub(x, right[b]), RSub(right[f], x)) THEN b ELSE f
        ELSE IF b # 0 THEN b ELSE f

\* pd.merge_asof(left=transitions, right=reference timestamps, nearest):
\* one output row per left row
merge_asof(left, right) ==
    [p \in 1..Len(left) |->
        [scaled_recording_timestamp_seconds |->
             left[p].scaled_recording_timestamp_seconds,
         recording_timestamp_seconds |-> left[p].recording_timestamp_seconds,
         frame |-> left[p].frame,
         reference_timestamp_seconds |->
             right[Nearest(left[p].scaled_recording_timestamp_seconds, right)]]]

\* pd.merge(left=reference (renamed), right=asof, how="outer"): in key
\* order, a reference row once per asof row matched to it, and once with
\* NaN in the right's columns when none is
RECURSIVE merge(_, _, _)
merge(refs, right, q) ==
    IF q > Len(refs) THEN <<>>
    ELSE LET key == refs[q].timestamp_seconds
             matched == SelectSeq(right,
                            LAMBDA r : r.reference_timestamp_seconds = key)
             Row(rec, label) ==
                 [reference_frame |-> refs[q].frame,
                  reference_previous_frame_count |-> refs[q].previous_frame_count,
                  reference_timestamp_seconds |-> key,
                  recording_timestamp_seconds |-> rec,
                  frame |-> label]
             rows == IF matched = <<>> THEN <<Row(NaN, "NaN")>>
                     ELSE [p \in 1..Len(matched) |->
                              Row(matched[p].recording_timestamp_seconds,
                                  matched[p].frame)]
         IN  rows \o merge(refs, right, q + 1)

\* Series.duplicated(keep=False)
duplicated(column, p) == \E q \in 1..Len(column) : q # p /\ column[q] = column[p]

\* lines 125-135: the columns repeated, expected_recording_timestamp_seconds
\* and error_seconds
AddColumns(table) ==
    LET reference == Column(table, "reference_timestamp_seconds")
        recorded  == Column(table, "recording_timestamp_seconds")
    IN  [p \in 1..Len(table) |->
            [reference_frame |-> table[p].reference_frame,
             reference_previous_frame_count |->
                 table[p].reference_previous_frame_count,
             reference_timestamp_seconds |-> reference[p],
             recording_timestamp_seconds |-> recorded[p],
             frame |-> table[p].frame,
             repeated |-> duplicated(reference, p),
             expected_recording_timestamp_seconds |->
                 rescale(reference[p], interval(reference), interval(recorded)),
             error_seconds |-> RSub(recorded[p], reference[p])]]

\* lines 108-135 when merge_asof accepts the keys: the aligned table
AlignedTable(scaled, refs) ==
    AddColumns(merge(refs,
                     merge_asof(scaled, Column(refs, "timestamp_seconds")),
                     1))

\* lines 108-135
MergeTransitions ==
    /\ pc = "merge"
    /\ IF MergeAsofRaises(Column(transitions, "scaled_recording_timestamp_seconds"))
       THEN Raise("ValueError", 113) /\ UNCHANGED transitions
       ELSE /\ transitions' = AlignedTable(transitions, reference_transitions)
            /\ pc' = "fit"
            /\ UNCHANGED exception
    /\ UNCHANGED <<args, spec, reference_transitions, csv, linear_regression,
                   clock_skew, stderr, chart, output_file, fake_vars>>

\* Polynomial.fit's default domain, pu.getdomain(x) = [x.min(), x.max()],
\* widened by one on each side when the two coincide
FitDomain(x) ==
    LET lo == RMin(x)
        hi == RMax(x)
    IN  IF lo = hi
        THEN [left |-> RSub(lo, Whole(1)), right |-> RAdd(hi, Whole(1))]
        ELSE [left |-> lo, right |-> hi]

\* pu.mapdomain(x, domain, window) for the default window [-1, 1]:
\* off + scl * x with off = (-domain[1] - domain[0]) / len, scl = 2 / len
mapdomain(x, domain) ==
    LET len == IntervalLength(domain)
        off == RDiv(RSub(RSub(Whole(0), domain.right), domain.left), len)
        scl == RDiv(Whole(2), len)
    IN  RAdd(off, RMul(scl, x))

\* the least-squares coefficients of y against the mapped abscissae u, for
\* the basis 1 (deg 0) or 1, u (deg 1); lstsq's minimum-norm solution when
\* the u are all equal
LeastSquares(u, y, deg) ==
    IF deg = 0 THEN <<RMean(y)>>
    ELSE LET n   == Whole(Len(u))
             Su  == RSum(u)
             Sy  == RSum(y)
             Suu == RSum([p \in 1..Len(u) |-> RMul(u[p], u[p])])
             Suy == RSum([p \in 1..Len(u) |-> RMul(u[p], y[p])])
             det == RSub(RMul(n, Suu), RMul(Su, Su))
             c1  == RDiv(RSub(RMul(n, Suy), RMul(Su, Sy)), det)
         IN  IF det = Whole(0) THEN <<RMean(y), Whole(0)>>
             ELSE <<RDiv(RSub(Sy, RMul(c1, Su)), n), c1>>

\* np.polynomial.Polynomial.fit(x, y, deg): the series keeps the domain, and
\* its coef are those of the mapped variable
PolynomialFit(x, y, deg) ==
    LET domain == FitDomain(x)
    IN  [coef |-> LeastSquares([p \in 1..Len(x) |-> mapdomain(x[p], domain)],
                               y, deg),
         domain |-> domain]

\* linear_regression(x): the series evaluated at x, through its domain
PolynomialCall(lr, x) ==
    IF IsNaN(x) THEN NaN
    ELSE IF Len(lr.coef) = 1 THEN lr.coef[1]
    ELSE RAdd(lr.coef[1], RMul(lr.coef[2], mapdomain(x, lr.domain)))

\* linear_regression.coef[1] (Python's index 1 is position 2)
SlopeCoefficient(lr) == lr.coef[2]

\* the 0.10 of line 155
SkewLimit == Rat(10, 100)

\* lines 141-147
ValidTransitions(table) ==
    SelectSeq(table, LAMBDA r : ~(IsNaN(r.recording_timestamp_seconds) \/ r.repeated))

SetError(row, e) ==
    [reference_frame |-> row.reference_frame,
     reference_previous_frame_count |-> row.reference_previous_frame_count,
     reference_timestamp_seconds |-> row.reference_timestamp_seconds,
     recording_timestamp_seconds |-> row.recording_timestamp_seconds,
     frame |-> row.frame,
     repeated |-> row.repeated,
     expected_recording_timestamp_seconds |->
         row.expected_recording_timestamp_seconds,
     error_seconds |-> e]

\* lines 165-167
SubtractRegression(table, lr) ==
    [p \in 1..Len(table) |->
        SetError(table[p],
                 RSub(table[p].error_seconds,
                      PolynomialCall(lr, table[p].recording_timestamp_seconds)))]

\* lines 141-167; fitting no point raises ValueError
FitRegression ==
    /\ pc = "fit"
    /\ LET valid == ValidTransitions(transitions)
           lr == PolynomialFit(Column(valid, "recording_timestamp_seconds"),
                               Column(valid, "error_seconds"),
                               IF args.compensate_clock_skew THEN 1 ELSE 0)
       IN  IF valid = <<>>
           THEN /\ Raise("ValueError", 148)
                /\ UNCHANGED <<transitions, linear_regression, clock_skew, stderr>>
           ELSE /\ linear_regression' = lr
                /\ IF args.compensate_clock_skew
                   THEN /\ clock_skew' = RAdd(Whole(1), SlopeCoefficient(lr))
                        /\ stderr' = stderr \cup
                              {IF RLt(SkewLimit, RAbs(SlopeCoefficient(lr)))
                               THEN "abnormally large clock skew"
                               ELSE "benign clock skew"}
                   ELSE UNCHANGED <<clock_skew, stderr>>
                /\ transitions' = SubtractRegression(transitions, lr)
                /\ pc' = "offsets"
                /\ UNCHANGED exception
    /\ UNCHANGED <<args, spec, reference_transitions, csv, chart, output_file,
                   fake_vars>>

\* the mean error_seconds of the rows of the other label
LabelOffsetSwapped(table, label) ==
    RMean(Column(SelectSeq(table, LAMBDA r : r.frame \in FrameLabels \ {label}),
                 "error_seconds"))

\* lines 169-174: the mean error_seconds of the rows whose frame is label
LabelOffset(table, label) ==
    RMean(Column(SelectSeq(table, LAMBDA r : r.frame = label), "error_seconds"))

\* lines 179-184
SubtractOffset(table, label, offset) ==
    [p \in 1..Len(table) |->
        IF table[p].frame = label
        THEN SetError(table[p], RSub(table[p].error_seconds, offset))
        ELSE table[p]]

\* lines 169-189
RemoveOffsets ==
    /\ pc = "offsets"
    /\ LET black_offset == LabelOffset(transitions, "BLACK")
           white_offset == LabelOffset(transitions, "WHITE")
       IN  transitions' =
               SubtractOffset(SubtractOffset(transitions, "BLACK", black_offset),
                              "WHITE", white_offset)
    /\ pc' = "save"
    /\ UNCHANGED <<args, spec, reference_transitions, csv, linear_regression,
                   clock_skew, stderr, chart, exception, output_file, fake_vars>>

\* lines 211-222: the chart's anomaly of a row
Anomaly(row) ==
    IF row.repeated THEN "Repeated transition"
    ELSE IF ~IsNaN(row.recording_timestamp_seconds) THEN "None"
    ELSE "Missing transition"

\* lines 191-247
SaveChart ==
    /\ pc = "save"
    /\ chart' = [p \in 1..Len(transitions) |-> Anomaly(transitions[p])]
    /\ output_file' = "written"
    /\ pc' = "done"
    /\ UNCHANGED <<args, spec, reference_transitions, csv, transitions,
                   linear_regression, clock_skew, stderr, exception, fake_vars>>

(* --------------------- generate-fake-recording.py ---------------------- *)
\* lines 11-106 and 128-129.  --output-recording-file has
\* type=argparse.FileType(mode="wb"): parse_args() opens the path for
\* writing, which creates the file or truncates the one that is there.
FakeParseArguments(internal, output) ==
    /\ pc = "parse_arguments"
    /\ args' = [internal_sample_rate_hz |-> internal,
                output_sample_rate_hz |-> output]
    /\ output_file' = "empty"
    /\ sample_rate' = Whole(internal)
    /\ pc' = "json_load"
    /\ UNCHANGED <<spec, reference_transitions, csv, transitions,
                   linear_regression, clock_skew, stderr, chart, exception,
                   downsample_ratio>>

\* line 130
FakeLoadSpec ==
    /\ pc = "json_load"
    /\ spec' = [loaded |-> TRUE]
    /\ pc' = "assert"
    /\ UNCHANGED <<args, reference_transitions, csv, transitions,
                   linear_regression, clock_skew, stderr, chart, exception,
                   output_file, fake_vars>>

\* line 132
FakeAssert ==
    /\ pc = "assert"
    /\ IF args.internal_sample_rate_hz > args.output_sample_rate_hz
       THEN pc' = "internal_rate" /\ UNCHANGED exception
       ELSE Raise("AssertionError", 132)
    /\ UNCHANGED <<args, spec, reference_transitions, csv, transitions,
                   linear_regression, clock_skew, stderr, chart, output_file,
                   fake_vars>>

\* the ratio rounded down instead of up
FloorRatio(a, b) == a \div b

\* int(np.ceil(a / b)) for positive integers
CeilRatio(a, b) == IF a % b = 0 THEN a \div b ELSE (a \div b) + 1

\* lines 133-137
FakeInternalRate ==
    /\ pc = "internal_rate"
    /\ downsample_ratio' = CeilRatio(args.internal_sample_rate_hz,
                                     args.output_sample_rate_hz)
    /\ sample_rate' = Whole(args.output_sample_rate_hz * downsample_ratio')
    /\ stderr' = stderr \cup {"Using internal sample rate"}
    /\ pc' = "synthesize"
    /\ UNCHANGED <<args, spec, reference_transitions, csv, transitions,
                   linear_regression, clock_skew, chart, exception, output_file>>

\* lines 139-191: the samples are rendered at sample_rate, resampled down
\* by downsample_ratio and filtered; line 177 divides the rate
FakeSynthesize ==
    /\ pc = "synthesize"
    /\ sample_rate' = RDiv(sample_rate, Whole(downsample_ratio))
    /\ pc' = "write"
    /\ UNCHANGED <<args, spec, reference_transitions, csv, transitions,
                   linear_regression, clock_skew, stderr, chart, exception,
                   output_file, downsample_ratio>>

\* lines 193-197
FakeWrite ==
    /\ pc = "write"
    /\ output_file' = "written"
    /\ pc' = "done"
    /\ UNCHANGED <<args, spec, reference_transitions, csv, transitions,
                   linear_regression, clock_skew, stderr, chart, exception,
                   fake_vars>>

(* ------------------------------- inputs -------------------------------- *)
SeqsOfLen(S, lo, hi) == UNION {[1..k -> S] : k \in lo..hi}

FpsSet == {<<1, 1>>, <<24, 1>>}

ScheduleFpsSet == {<<1, 1>>, <<24, 1>>, <<30000, 1001>>, <<2, 3>>}

SpecFiles(maxFrames, fpsSet) ==
    {[frames |-> f, fps |-> [num |-> r[1], den |-> r[2]]] :
        f \in SeqsOfLen(FrameLabels, 1, maxFrames), r \in fpsSet}

\* recorded timestamps lie on the nominal frame grid, 0 to MaxFrames frames
CsvRows(s) ==
    {[recording_timestamp_seconds |-> RMul(Whole(k), frame_duration(s)),
      frame |-> f] : k \in 0..MaxFrames, f \in FrameLabels}

CsvFiles(s) == SeqsOfLen(CsvRows(s), 0, MaxRows)

\* what a transition detector reports for a reference schedule
AsRecorded(refs) ==
    [p \in 1..Len(refs) |->
        [recording_timestamp_seconds |-> refs[p].timestamp_seconds,
         frame |-> refs[p].frame]]

\* the schedule as recorded, with transition i left out and transition j
\* reported twice
RECURSIVE DropAndDuplicate(_, _, _, _)
DropAndDuplicate(rows, i, j, p) ==
    IF p > Len(rows) THEN <<>>
    ELSE (IF p = i THEN <<>>
          ELSE IF p = j THEN <<rows[p], rows[p]>>
          ELSE <<rows[p]>>) \o DropAndDuplicate(rows, i, j, p + 1)

DetectorFiles(refs) ==
    {AsRecorded(refs)} \cup
    {DropAndDuplicate(AsRecorded(refs), ij[1], ij[2], 1) :
        ij \in {p \in (1..Len(refs)) \X (1..Len(refs)) : p[1] # p[2]}}

(* ---------------------------- specifications --------------------------- *)
\* the steps of generate_report after its inputs are read
Align ==
    \/ RescaleTransitions
    \/ MergeTransitions
    \/ FitRegression
    \/ RemoveOffsets
    \/ SaveChart

\* generate_report on every spec file and CSV within the bounds
Next ==
    \/ \E c \in BOOLEAN : ParseArguments(c)
    \/ pc = "load_spec" /\ \E s \in SpecFiles(MaxFrames, FpsSet) : LoadSpec(s)
    \/ pc = "read_csv" /\ \E rows \in CsvFiles(spec) : ReadTransitions(rows)
    \/ Align

Spec == Init /\ [][Next]_vars

\* generate_report on longer schedules, with the CSV a detector's report of
\* the schedule: exact, or with one transition left out and another doubled
NextDetector ==
    \/ \E c \in BOOLEAN : ParseArguments(c)
    \/ pc = "load_spec" /\
           \E s \in SpecFiles(MaxScheduleFrames, {<<24, 1>>}) : LoadSpec(s)
    \/ pc = "read_csv" /\
           \E rows \in DetectorFiles(reference_transitions) : ReadTransitions(rows)
    \/ Align

SpecDetector == Init /\ [][NextDetector]_vars

\* generate_fake_recording on every pair of rates within the bound
NextFake ==
    \/ \E internal \in 1..MaxRate, output \in 1..MaxRate :
           FakeParseArguments(internal, output)
    \/ FakeLoadSpec
    \/ FakeAssert
    \/ FakeInternalRate
    \/ FakeSynthesize
    \/ FakeWrite

SpecFake == Start({"absent", "old"}) /\ [][NextFake]_vars

\* the reference schedule builder alone: the script up to line 79
NextSchedule ==
    \/ \E c \in BOOLEAN : ParseArguments(c)
    \/ pc = "load_spec" /\
           \E s \in SpecFiles(MaxScheduleFrames, ScheduleFpsSet) : LoadSpec(s)

SpecSchedule == Init /\ [][NextSchedule]_vars

(* ------------------------------- claims -------------------------------- *)
\* the blocks of generate_report that run once the aligned table is built
TableBuilt == pc \in {"fit", "offsets", "save", "done"} \/
              (pc = "raised" /\ exception.line = 148)

\* the reference transitions are built (also when line 75 then raised)
ReferenceBuilt == pc \notin {"parse_arguments", "load_spec"}

\* the length of the maximal run of equal frames that ends at position p
RunEndingAt(frames, p) ==
    CHOOSE k \in 1..p :
        /\ \A q \in (p - k + 1)..p : frames[q] = frames[p]
        /\ k = p \/ frames[p - k] # frames[p]

\* the transitions of a frame sequence, said directly: index i >= 1 (position
\* i + 1) with frames[i] # frames[i - 1]
TransitionsOf(s) ==
    {[timestamp_seconds    |-> Rat(i * s.fps.den, s.fps.num),
      frame                |-> s.frames[i + 1],
      previous_frame_count |-> RunEndingAt(s.frames, i)] :
        i \in {j \in 1..(Len(s.frames) - 1) : s.frames[j + 1] # s.frames[j]}}

\* C7: the reference transitions are exactly the indices i >= 1 with
\* frames[i] # frames[i-1] (index 0 never), each with timestamp
\* i * fps.den / fps.num, label frames[i] and previous_frame_count the length
\* of the maximal run of equal frames ending at i-1; one row each, and the
\* timestamps strictly increase.
C7_ReferenceTransitions ==
    ReferenceBuilt =>
        /\ {reference_transitions[p] : p \in 1..Len(reference_transitions)}
               = TransitionsOf(spec)
        /\ Len(reference_transitions) = Cardinality(TransitionsOf(spec))
        /\ \A p \in 1..(Len(reference_transitions) - 1) :
               RLt(reference_transitions[p].timestamp_seconds,
                   reference_transitions[p + 1].timestamp_seconds)

\* C7's case: a schedule that starts WHITE, has three transitions or more,
\* one of them after a run of two frames or more, at a non-integer rate
C7_Witness ==
    /\ pc = "read_csv"
    /\ spec.frames[1] = "WHITE"
    /\ spec.fps.den > 1
    /\ Len(reference_transitions) >= 3
    /\ \E p \in 1..Len(reference_transitions) :
           reference_transitions[p].previous_frame_count >= 2

\* the least multiple of output that is not below internal
LeastMultipleAtLeast(internal, output) ==
    output * (CHOOSE k \in 1..internal :
                 k * output >= internal /\ (k - 1) * output < internal)

\* C10: for positive rates with internal > output, the internal rate is
\* output * ceil(internal / output): a multiple of output, at least internal
\* and less than internal + output, and dividing it by the downsample ratio
\* gives the output rate back; with internal <= output the run fails its
\* assertion instead and computes no rate.
C10_InternalRate ==
    LET internal == args.internal_sample_rate_hz
        output   == args.output_sample_rate_hz
    IN  /\ pc \in {"internal_rate", "synthesize", "write", "done"}
               => internal > output
        /\ pc = "raised" => internal <= output /\ exception.type = "AssertionError"
        /\ pc = "synthesize" =>
               /\ sample_rate = Whole(LeastMultipleAtLeast(internal, output))
               /\ sample_rate = Whole(output * downsample_ratio)
               /\ RLe(Whole(internal), sample_rate)
               /\ RLt(sample_rate, Whole(internal + output))
        /\ pc \in {"write", "done"} => sample_rate = Whole(output)

\* C10's case: a run that finished with an internal rate that is no multiple
\* of the output rate, so that the ratio was rounded up
C10_Witness ==
    /\ pc = "done"
    /\ args.internal_sample_rate_hz % args.output_sample_rate_hz # 0
    /\ downsample_ratio >= 2

\* C3: a run that ends in the failed assertion of line 132 has not created,
\* truncated or written the output recording file.
C3_NoOutputBeforeAbort ==
    (pc = "raised" /\ exception.type = "AssertionError")
        => output_file \in {"absent", "old"}

\* the CSV has been read without error
RecordedRead == pc \in {"rescale", "merge"} \/ TableBuilt \/
                (pc = "raised" /\ exception.line = 113)

\* merge_asof raised
AlignmentFailed == pc = "raised" /\ exception.line = 113

Distance(a, b) == RAbs(RSub(a, b))

\* a recorded timestamp on the reference timeline, from the inputs
ScaledTimestamp(x) ==
    rescale(x, interval(Column(csv, "recording_timestamp_seconds")),
            interval(Column(reference_transitions, "timestamp_seconds")))

RowsOfReference(q) ==
    {p \in 1..Len(transitions) :
        transitions[p].reference_timestamp_seconds
            = reference_transitions[q].timestamp_seconds}

IsMissing(row) == IsNaN(row.recording_timestamp_seconds)

\* C4 as amended: the association is done from the recorded side.  The rows
\* with a recorded value are the CSV's rows, each once and in order; each is
\* paired with the reference transition nearest to its rescaled timestamp
\* among all reference transitions (the earlier one on a tie); a reference
\* transition has one row with a missing recorded value exactly when no
\* recorded transition was paired with it; and "repeated" marks the rows of
\* a reference transition that several recorded transitions were paired with.
C4_NearestFromRecordedSide ==
    TableBuilt =>
        LET matched == SelectSeq(transitions, LAMBDA r : ~IsMissing(r))
        IN  /\ [p \in 1..Len(matched) |->
                   [recording_timestamp_seconds |->
                        matched[p].recording_timestamp_seconds,
                    frame |-> matched[p].frame]] = csv
            /\ \A p \in 1..Len(matched) : \A q \in 1..Len(reference_transitions) :
                   LET x  == ScaledTimestamp(matched[p].recording_timestamp_seconds)
                       r  == matched[p].reference_timestamp_seconds
                       r2 == reference_transitions[q].timestamp_seconds
                   IN  /\ RLe(Distance(x, r), Distance(x, r2))
                       /\ Distance(x, r) = Distance(x, r2) => RLe(r, r2)
            /\ \A q \in 1..Len(reference_transitions) :
                   LET rows == RowsOfReference(q)
                   IN  /\ rows # {}
                       /\ (\E p \in rows : IsMissing(transitions[p]))
                              => Cardinality(rows) = 1
                       /\ \A p \in rows :
                              transitions[p].repeated <=> Cardinality(rows) >= 2
            /\ \A p \in 1..Len(transitions) :
                   \E q \in 1..Len(reference_transitions) : p \in RowsOfReference(q)

\* C4's case: an aligned table with a missing row, repeated rows and a
\* normal row, one recorded transition of which lay half-way between two
\* reference transitions
C4_Witness ==
    /\ TableBuilt
    /\ \E p \in 1..Len(transitions) : IsMissing(transitions[p])
    /\ \E p \in 1..Len(transitions) : transitions[p].repeated
    /\ \E p \in 1..Len(transitions) :
           ~IsMissing(transitions[p]) /\ ~transitions[p].repeated
    /\ \E p \in 1..Len(transitions), q \in 1..Len(reference_transitions) :
           /\ ~IsMissing(transitions[p])
           /\ transitions[p].reference_timestamp_seconds
                  # reference_transitions[q].timestamp_seconds
           /\ Distance(ScaledTimestamp(transitions[p].recording_timestamp_seconds),
                       transitions[p].reference_timestamp_seconds)
                = Distance(ScaledTimestamp(transitions[p].recording_timestamp_seconds),
                           reference_transitions[q].timestamp_seconds)

\* C4 as stated: the association is done from the reference side.  Every
\* reference transition is paired with the recorded transition whose rescaled
\* timestamp is nearest to it among all recorded transitions (so none lacks a
\* recorded value while there are recorded transitions), and "repeated" marks
\* the rows where several reference transitions got the same recorded
\* transition.
C4_NearestFromReferenceSide ==
    TableBuilt =>
        /\ \A p \in 1..Len(transitions) :
               /\ ~IsMissing(transitions[p])
               /\ \A k \in 1..Len(csv) :
                      RLe(Distance(ScaledTimestamp(
                                       transitions[p].recording_timestamp_seconds),
                                   transitions[p].reference_timestamp_seconds),
                          Distance(ScaledTimestamp(csv[k].recording_timestamp_seconds),
                                   transitions[p].reference_timestamp_seconds))
        /\ \A p \in 1..Len(transitions) :
               transitions[p].repeated <=>
                   \E p2 \in 1..Len(transitions) :
                       /\ transitions[p2].recording_timestamp_seconds
                              = transitions[p].recording_timestamp_seconds
                       /\ transitions[p2].frame = transitions[p].frame
                       /\ transitions[p2].reference_timestamp_seconds
                              # transitions[p].reference_timestamp_seconds

\* C9: once the per-label offsets are subtracted, the mean error_seconds of
\* the rows of each label that has a row is 0.
C9_LabelMeansZero ==
    pc \in {"save", "done"} =>
        \A label \in FrameLabels :
            LET errors == Column(SelectSeq(transitions, LAMBDA r : r.frame = label),
                                 "error_seconds")
            IN  errors # <<>> =>
                    /\ \A p \in 1..Len(errors) : ~IsNaN(errors[p])
                    /\ RDiv(RSum(errors), Whole(Len(errors))) = Whole(0)

\* C9's case: skew compensation on, rows of both labels, a repeated row, and
\* errors that differ within a label
C9_Witness ==
    /\ pc = "done"
    /\ args.compensate_clock_skew
    /\ \A label \in FrameLabels :
           \E p \in 1..Len(transitions) : transitions[p].frame = label
    /\ \E p \in 1..Len(transitions) :
           ~IsMissing(transitions[p]) /\ transitions[p].error_seconds # Whole(0)
    /\ \E p \in 1..Len(transitions) : transitions[p].repeated

\* the recording that reports every reference transition, at its nominal
\* timestamp and with its label, in time order
PerfectRecording ==
    /\ Len(reference_transitions) >= 2
    /\ csv = AsRecorded(reference_transitions)

\* C6: on a perfect recording of a schedule with two transitions or more the
\* run raises nothing, the aligned table has one row per reference
\* transition, none repeated or missing, and error_seconds is 0 on every row,
\* before and after the regression and the per-label offsets are subtracted,
\* with and without --compensate-clock-skew.
C6_PerfectRecordingZeroError ==
    (RecordedRead /\ PerfectRecording) =>
        /\ pc # "raised"
        /\ pc \in {"fit", "offsets", "save", "done"} =>
               /\ Len(transitions) = Len(reference_transitions)
               /\ \A p \in 1..Len(transitions) :
                      /\ transitions[p].reference_timestamp_seconds
                             = reference_transitions[p].timestamp_seconds
                      /\ transitions[p].recording_timestamp_seconds
                             = reference_transitions[p].timestamp_seconds
                      /\ transitions[p].frame = reference_transitions[p].frame
                      /\ ~transitions[p].repeated
                      /\ transitions[p].error_seconds = Whole(0)
        /\ pc = "done" => \A p \in 1..Len(chart) : chart[p] = "None"

\* C6's case: the spec's scenario (24 fps, three transitions) run to the
\* end with skew compensation
C6_Witness ==
    /\ pc = "done"
    /\ PerfectRecording
    /\ args.compensate_clock_skew
    /\ spec.fps.num = 24
    /\ Len(reference_transitions) = 3

\* C5: whenever the recorded and the reference transition counts differ (and
\* the recorded timestamps are not all equal), the inconsistency warning is
\* printed, the alignment completes (merge_asof does not raise), and the
\* aligned table has a row that is "missing" or "repeated".
C5_MismatchNeverFatal ==
    (/\ RecordedRead
     /\ Len(csv) # Len(reference_transitions)
     /\ Cardinality({csv[k].recording_timestamp_seconds : k \in 1..Len(csv)}) >= 2)
        => /\ "inconsistent transition count" \in stderr
           /\ ~AlignmentFailed
           /\ TableBuilt =>
                  \E p \in 1..Len(transitions) : Anomaly(transitions[p]) # "None"

\* the slope of the least-squares line of y against x, in y per unit of x
\* (0 when the x are all equal)
SlopePerSecond(x, y) ==
    LET n   == Whole(Len(x))
        Sx  == RSum(x)
        Sy  == RSum(y)
        Sxx == RSum([p \in 1..Len(x) |-> RMul(x[p], x[p])])
        Sxy == RSum([p \in 1..Len(x) |-> RMul(x[p], y[p])])
        det == RSub(RMul(n, Sxx), RMul(Sx, Sx))
    IN  IF det = Whole(0) THEN Whole(0)
        ELSE RDiv(RSub(RMul(n, Sxy), RMul(Sx, Sy)), det)

\* C8: with skew compensation, the "abnormally large clock skew" warning is
\* printed exactly when the slope of error_seconds against
\* recording_timestamp_seconds over the valid rows exceeds 0.10 in magnitude,
\* and the clock skew reported is 1 + that slope; without it, only the mean
\* is fitted and nothing is said about skew.
C8_SkewWarning ==
    pc \in {"offsets", "save", "done"} =>
        LET valid == ValidTransitions(transitions)
            x     == Column(valid, "recording_timestamp_seconds")
            y     == [p \in 1..Len(valid) |->
                         RSub(valid[p].recording_timestamp_seconds,
                              valid[p].reference_timestamp_seconds)]
            slope == SlopePerSecond(x, y)
        IN  IF args.compensate_clock_skew
            THEN /\ ("abnormally large clock skew" \in stderr)
                        <=> RLt(Rat(10, 100), RAbs(slope))
                 /\ ("benign clock skew" \in stderr)
                        <=> ~RLt(Rat(10, 100), RAbs(slope))
                 /\ clock_skew = RAdd(Whole(1), slope)
            ELSE /\ Len(linear_regression.coef) = 1
                 /\ IsNaN(clock_skew)
                 /\ stderr \cap {"abnormally large clock skew",
                                  "benign clock skew"} = {}

\* the rows in recording_timestamp_seconds order (a stable sort)
RECURSIVE InsertByTimestamp(_, _)
InsertByTimestamp(sorted, row) ==
    IF sorted = <<>> THEN <<row>>
    ELSE IF RLe(Head(sorted).recording_timestamp_seconds,
                row.recording_timestamp_seconds)
         THEN <<Head(sorted)>> \o InsertByTimestamp(Tail(sorted), row)
         ELSE <<row>> \o sorted

RECURSIVE SortByTimestamp(_)
SortByTimestamp(rows) ==
    IF rows = <<>> THEN <<>>
    ELSE InsertByTimestamp(SortByTimestamp(SubSeq(rows, 1, Len(rows) - 1)),
                           rows[Len(rows)])

RowSet(table) == {table[p] : p \in 1..Len(table)}

\* C2: the rows of the CSV may come in any order.  Whenever the time-sorted
\* CSV is one that merge_asof accepts, the CSV as given is accepted too, and
\* the aligned table has the same set of rows (same matches, flags and
\* error_seconds) as the table of the time-sorted CSV.
C2_AcceptsUnsortedRows ==
    LET sorted == ScaledIndex(SortByTimestamp(csv), reference_transitions)
    IN  (/\ RecordedRead
         /\ ~MergeAsofRaises(Column(sorted, "scaled_recording_timestamp_seconds")))
            => /\ ~AlignmentFailed
               /\ pc = "fit" =>
                      RowSet(transitions)
                          = RowSet(AlignedTable(sorted, reference_transitions))

\* the reference transitions that have a row of the anomaly
ReferencesWith(anomaly) ==
    {transitions[p].reference_timestamp_seconds :
        p \in {q \in 1..Len(transitions) : Anomaly(transitions[q]) = anomaly}}

\* C1: when the CSV is the reference timeline with one transition left out
\* and one other transition present twice, the aligned table reports exactly
\* one missing and exactly one repeated anomaly (counted by the reference
\* transition they are reported at), every other row being normal.
C1_OneMissingOneRepeated ==
    (/\ TableBuilt
     /\ csv # AsRecorded(reference_transitions))
        => /\ Cardinality(ReferencesWith("Missing transition")) = 1
           /\ Cardinality(ReferencesWith("Repeated transition")) = 1

====
